---- MODULE Spec2Model ----
(***************************************************************************)
(* Model of the local backend's TaskScheduler, Executor threads and the    *)
(* RPC ConnectionHandler of gwf (src/src/gwf/backends/local.py).           *)
(*                                                                         *)
(* Every method of TaskScheduler that touches scheduler state runs under   *)
(* `with self._lock`, so each of them is one atomic action.  An exception  *)
(* raised inside the locked region releases the lock and keeps whatever    *)
(* was mutated before the raise; the model keeps those partial updates.    *)
(* Iteration over a Python set (task.dependencies, _dependents[id]) has no *)
(* fixed order, so every order is a possible outcome.                      *)
(***************************************************************************)
EXTENDS Integers, Sequences, FiniteSets, TLC

\* ---------------------------------------------------------------- bounds
max_cores == 2          \* TaskScheduler(max_cores=...)
MaxTaskCores == 2       \* largest resources["cores"] of a submitted task
MaxSubmits == 3         \* number of submit-task requests in a behaviour
MaxCancels == 2         \* number of cancel-task requests in a behaviour

\* ------------------------------------------------------------- constants
Ids == {"a", "b", "c"}

\* LocalStatus; UNKNOWN also stands for "no entry in _status_map"
UNKNOWN == "UNKNOWN"
SUBMITTED == "SUBMITTED"
RUNNING == "RUNNING"
FAILED == "FAILED"
COMPLETED == "COMPLETED"
CANCELLED == "CANCELLED"
LocalStatus == {UNKNOWN, SUBMITTED, RUNNING, FAILED, COMPLETED, CANCELLED}

FAILED_STATES == {CANCELLED, FAILED}
FINISHED_STATES == {CANCELLED, FAILED, COMPLETED}

\* Task ids are generated before the tasks that depend on them: a task can
\* only name ids that precede it, so the dependency graph is acyclic.
Before(t) == CASE t = "a" -> {}
               [] t = "b" -> {"a"}
               [] t = "c" -> {"a", "b"}

\* The dependency graphs submitted: the join of the independent tasks a and
\* b in c, or the chain a <- b <- c in which c also names a.
Workloads == {[t \in Ids |-> IF t = "c" THEN Before(t) ELSE {}],
              [t \in Ids |-> Before(t)]}

\* The core demands submitted: a asks for MaxTaskCores cores, b and c for one.
CoreDemands == {[t \in Ids |-> IF t = "a" THEN MaxTaskCores ELSE 1]}

VARIABLES
    dependencies,     \* Task.dependencies of the task submitted under each id
    cores,            \* Task.resources["cores"] of that task
    queue,            \* TaskScheduler._queue: the keys, in insertion order
    status_map,       \* TaskScheduler._status_map
    dependents,       \* TaskScheduler._dependents
    executors,        \* TaskScheduler._executors: id -> executor number, 0 = no entry
    available_cores,  \* TaskScheduler._available_cores
    threads,          \* the Executor objects created so far, with their thread's position
    scheduler_thread, \* the thread running schedule_forever: "running", "last_iteration",
                      \* "exited" or "crashed"
    shutdown,         \* TaskScheduler._shutdown
    wait_returned,    \* whether a call of TaskScheduler.wait has returned
    rpc,              \* the last submit-task or cancel-task request handled and its reply
    nsubmit,          \* submit-task requests handled so far
    ncancel,          \* cancel-task requests handled so far
    submitted,        \* history: ids for which an enqueue_task call has returned
    cancelled_running,\* history: ids for which cancel_task was called while RUNNING
    dep_failed        \* history: ids set to FAILED because of a failed dependency

vars == <<dependencies, cores, queue, status_map, dependents, executors,
          available_cores, threads, scheduler_thread, shutdown, wait_returned,
          rpc, nsubmit, ncancel, submitted, cancelled_running, dep_failed>>

\* The fields guarded by TaskScheduler._lock, as one record.
Sched == [queue |-> queue, status_map |-> status_map, dependents |-> dependents,
          executors |-> executors, available_cores |-> available_cores,
          threads |-> threads]

\* ---------------------------------------------------------------- helpers
\* All orders in which a `for x in some_set` loop can visit the set.
RECURSIVE Orders(_)
Orders(S) == IF S = {} THEN {<<>>}
             ELSE UNION {{<<x>> \o o : o \in Orders(S \ {x})} : x \in S}

InQueue(s, t) == \E i \in 1..Len(s.queue) : s.queue[i] = t

\* del self._queue[task_id]
DelQueue(q, t) == SelectSeq(q, LAMBDA x : x # t)

\* self._queue[task.id] = task   (an existing key keeps its position)
PutQueue(q, t) == IF \E i \in 1..Len(q) : q[i] = t THEN q ELSE Append(q, t)

\* Result of a call: the state it leaves and the exception it raised.
Return(s) == [s |-> s, exc |-> "none"]
Raise(s, e) == [s |-> s, exc |-> e]

\* Executor.__init__ followed by Executor.execute: a new thread at the
\* beginning of Executor._execute.
NewExecutor(t) == [task |-> t, pc |-> "start", cancelled |-> FALSE, report |-> UNKNOWN]

\* ------------------------------------------------ TaskScheduler._set_status
RECURSIVE _set_status(_, _, _)
RECURSIVE Propagate(_, _)
RECURSIVE RegisterDependencies(_, _, _)

\* for dep_id in self._dependents[task_id]: self._set_status(dep_id, FAILED)
\* visiting the dependents in the given order; an exception ends the loop.
Propagate(s, order) ==
    IF order = <<>> THEN {Return(s)}
    ELSE UNION {IF r.exc # "none" THEN {r} ELSE Propagate(r.s, Tail(order))
                : r \in _set_status(s, Head(order), FAILED)}

\* self._status_map[task_id] = status, then the propagation of a failed state.
StoreStatus(s, task_id, status) ==
    LET s1 == [s EXCEPT !.status_map[task_id] = status]
    IN IF status \in FAILED_STATES
       THEN UNION {Propagate(s1, o) : o \in Orders(s1.dependents[task_id])}
       ELSE {Return(s1)}

\* The branch UNKNOWN -> SUBMITTED: the loop over task.dependencies in the
\* given order.  An unknown dependency raises, a failed one forces the task
\* to FAILED and returns, any other is registered and the loop goes on.
RegisterDependencies(s, task_id, order) ==
    IF order = <<>> THEN StoreStatus(s, task_id, SUBMITTED)
    ELSE LET dep_id == Head(order) IN
         IF s.status_map[dep_id] = UNKNOWN
         THEN {Raise(s, "BackendError")}
         ELSE IF s.status_map[dep_id] \in FAILED_STATES
         THEN _set_status(s, task_id, FAILED)
         ELSE RegisterDependencies(
                  [s EXCEPT !.dependents[dep_id] = @ \cup {task_id}],
                  task_id, Tail(order))

\* The branch SUBMITTED -> RUNNING.
StartTask(s, task_id) ==
    LET n == Len(s.threads) + 1
        s1 == [s EXCEPT !.available_cores = @ - 1,
                        !.executors[task_id] = n]
    IN IF ~InQueue(s, task_id)
       THEN Raise([s1 EXCEPT !.threads = Append(@, [NewExecutor(task_id) EXCEPT !.pc = "dead"])],
                  "KeyError")
       ELSE Return([s1 EXCEPT !.threads = Append(@, NewExecutor(task_id)),
                              !.queue = DelQueue(@, task_id)])

\* The branch RUNNING -> CANCELLED.
CancelRunning(s, task_id) ==
    IF s.executors[task_id] = 0
    THEN Raise(s, "KeyError")
    ELSE Return([s EXCEPT !.threads[s.executors[task_id]].cancelled = TRUE,
                          !.executors[task_id] = 0])

\* The branch SUBMITTED -> CANCELLED.
CancelSubmitted(s, task_id) ==
    IF ~InQueue(s, task_id)
    THEN Raise(s, "KeyError")
    ELSE Return([s EXCEPT !.queue = DelQueue(@, task_id)])

\* The branch `status in FINISHED_STATES`.
FinishTask(s, task_id, old_status) ==
    LET s1 == [s EXCEPT !.available_cores = @ + 1]
    IN IF old_status # RUNNING THEN Return(s1)
       ELSE IF s.executors[task_id] = 0 THEN Raise(s1, "KeyError")
       ELSE Return([s1 EXCEPT !.executors[task_id] = 0])

\* TaskScheduler._set_status past its first test: the branch for the pair
\* (old_status, status), then the store and the propagation.
Transition(s, task_id, status) ==
    LET old_status == s.status_map[task_id] IN
    IF status = SUBMITTED /\ old_status = UNKNOWN
    THEN UNION {RegisterDependencies(s, task_id, o) : o \in Orders(dependencies[task_id])}
    ELSE LET r == IF status = RUNNING /\ old_status = SUBMITTED
                      THEN StartTask(s, task_id)
                  ELSE IF status = CANCELLED /\ old_status = RUNNING
                      THEN CancelRunning(s, task_id)
                  ELSE IF status = CANCELLED /\ old_status = SUBMITTED
                      THEN CancelSubmitted(s, task_id)
                  ELSE IF status \in FINISHED_STATES
                      THEN FinishTask(s, task_id, old_status)
                  ELSE Return(s)
         IN IF r.exc # "none" THEN {r} ELSE StoreStatus(r.s, task_id, status)

\* _set_status without `if old_status == status: return`.
_set_status_without_same_status_test(s, task_id, status) ==
    Transition(s, task_id, status)

_set_status(s, task_id, status) ==
    IF s.status_map[task_id] = status THEN {Return(s)}
    ELSE Transition(s, task_id, status)

\* ------------------------------------------- TaskScheduler, public methods
get_status(task_id) == status_map[task_id]

enqueue_task(s, task_id) ==
    _set_status([s EXCEPT !.queue = PutQueue(@, task_id)], task_id, SUBMITTED)

cancel_task(s, task_id) == _set_status(s, task_id, CANCELLED)

set_status(s, task_id, status) == _set_status(s, task_id, status)

\* any(self._status_map[dep_id] in FAILED_STATES for dep_id in task.dependencies)
RECURSIVE AnyFailed(_, _)
AnyFailed(s, order) ==
    IF order = <<>> THEN "False"
    ELSE IF s.status_map[Head(order)] = UNKNOWN THEN "KeyError"
    ELSE IF s.status_map[Head(order)] \in FAILED_STATES THEN "True"
    ELSE AnyFailed(s, Tail(order))

\* all(self._status_map[dep_id] == COMPLETED for dep_id in task.dependencies)
RECURSIVE AllCompleted(_, _)
AllCompleted(s, order) ==
    IF order = <<>> THEN "True"
    ELSE IF s.status_map[Head(order)] = UNKNOWN THEN "KeyError"
    ELSE IF s.status_map[Head(order)] # COMPLETED THEN "False"
    ELSE AllCompleted(s, Tail(order))

\* The scan of schedule_once over the rest of the queue: the possible
\* outcomes, each the list `scheduled` or a KeyError.
RECURSIVE Scan(_, _, _, _)
Scan(s, rest, available, scheduled) ==
    IF rest = <<>> \/ available = 0
    THEN {[scheduled |-> scheduled, exc |-> "none"]}
    ELSE LET task == Head(rest) IN
         UNION {
           IF has_failed_dep = "KeyError"
           THEN {[scheduled |-> scheduled, exc |-> "KeyError"]}
           ELSE IF has_failed_dep = "True"
           THEN Scan(s, Tail(rest), available, scheduled)
           ELSE UNION {
                  IF can_run = "KeyError"
                  THEN {[scheduled |-> scheduled, exc |-> "KeyError"]}
                  ELSE IF can_run = "True"
                  THEN Scan(s, Tail(rest), available - cores[task],
                            Append(scheduled, task))
                  ELSE Scan(s, Tail(rest), available, scheduled)
                  : can_run \in {AllCompleted(s, o) : o \in Orders(dependencies[task])}}
           : has_failed_dep \in {AnyFailed(s, o) : o \in Orders(dependencies[task])}}

\* for task in scheduled: self._set_status(task.id, RUNNING)
RECURSIVE StartScheduled(_, _)
StartScheduled(s, scheduled) ==
    IF scheduled = <<>> THEN {Return(s)}
    ELSE UNION {IF r.exc # "none" THEN {r} ELSE StartScheduled(r.s, Tail(scheduled))
                : r \in _set_status(s, Head(scheduled), RUNNING)}

schedule_once(s) ==
    UNION {IF sc.exc # "none" THEN {Raise(s, sc.exc)}
           ELSE StartScheduled(s, sc.scheduled)
           : sc \in Scan(s, s.queue, s.available_cores, <<>>)}

\* ------------------------------------------------------------------ actions
Init ==
    /\ dependencies \in Workloads
    /\ cores \in CoreDemands
    /\ queue = <<>>
    /\ status_map = [t \in Ids |-> UNKNOWN]
    /\ dependents = [t \in Ids |-> {}]
    /\ executors = [t \in Ids |-> 0]
    /\ available_cores = max_cores
    /\ threads = <<>>
    /\ scheduler_thread = "running"
    /\ shutdown = FALSE
    /\ wait_returned = FALSE
    /\ rpc = [type |-> "none", id |-> "none", resp |-> "none"]
    /\ nsubmit = 0
    /\ ncancel = 0
    /\ submitted = {}
    /\ cancelled_running = {}
    /\ dep_failed = {}

\* The scheduler fields after a locked region that left state s.
Commit(s) ==
    /\ queue' = s.queue
    /\ status_map' = s.status_map
    /\ dependents' = s.dependents
    /\ executors' = s.executors
    /\ available_cores' = s.available_cores
    /\ threads' = s.threads

\* Tasks that a call forced from SUBMITTED to FAILED through the loop over
\* _dependents (every task but the one the call itself was about).
Propagated(s, self) ==
    {t \in Ids \ {self} : status_map[t] = SUBMITTED /\ s.status_map[t] = FAILED}

\* ConnectionHandler.handle, request "submit-task": the reply is sent only
\* when enqueue_task returns; an exception ends the handler and the
\* connection is closed.  Handlers run only until Server.shutdown has
\* closed the TCP server, which is before it sets the scheduler's flag.
SubmitTask(t) ==
    /\ nsubmit < MaxSubmits
    /\ ~shutdown
    /\ \E r \in enqueue_task(Sched, t) :
          /\ Commit(r.s)
          /\ rpc' = [type |-> "submit-task", id |-> t,
                     resp |-> IF r.exc = "none" THEN "ok" ELSE "closed"]
          /\ submitted' = IF r.exc = "none" THEN submitted \cup {t} ELSE submitted
          /\ dep_failed' = dep_failed \cup Propagated(r.s, t)
                \cup (IF status_map[t] = UNKNOWN /\ r.s.status_map[t] = FAILED
                      THEN {t} ELSE {})
    /\ nsubmit' = nsubmit + 1
    /\ UNCHANGED <<dependencies, cores, scheduler_thread, shutdown, wait_returned,
                   ncancel, cancelled_running>>

\* ConnectionHandler.handle, request "cancel-task".
CancelTask(t) ==
    /\ ncancel < MaxCancels
    /\ ~shutdown
    /\ \E r \in cancel_task(Sched, t) :
          /\ Commit(r.s)
          /\ rpc' = [type |-> "cancel-task", id |-> t,
                     resp |-> IF r.exc = "none" THEN "ok" ELSE "closed"]
          /\ dep_failed' = dep_failed \cup Propagated(r.s, t)
    /\ ncancel' = ncancel + 1
    /\ cancelled_running' = IF status_map[t] = RUNNING
                            THEN cancelled_running \cup {t} ELSE cancelled_running
    /\ UNCHANGED <<dependencies, cores, scheduler_thread, shutdown, wait_returned,
                   nsubmit, submitted>>

\* One iteration of schedule_forever: the test of the flag (passed now, or
\* passed before the flag was set), schedule_once and the sleep.  An
\* exception out of schedule_once ends the scheduler thread; after the last
\* iteration the loop finds the flag set and the thread exits.
ScheduleOnce ==
    /\ scheduler_thread \in {"running", "last_iteration"}
    /\ \E r \in schedule_once(Sched) :
          /\ Commit(r.s)
          /\ scheduler_thread' = IF r.exc # "none" THEN "crashed"
                                 ELSE IF shutdown THEN "exited" ELSE "running"
    /\ UNCHANGED <<dependencies, cores, shutdown, wait_returned, rpc, nsubmit, ncancel,
                   submitted, cancelled_running, dep_failed>>

\* Server.shutdown: the TCP server is stopped and closed, which joins the
\* handler threads, and then TaskScheduler.shutdown sets the flag, without
\* the lock.  The scheduler thread is at that moment either past the test of an iteration whose
\* schedule_once is still to come, or it is not: then the next test of the
\* flag ends the loop, and nothing else happens in that thread.
Shutdown ==
    /\ ~shutdown
    /\ shutdown' = TRUE
    /\ scheduler_thread' \in IF scheduler_thread = "running"
                              THEN {"last_iteration", "exited"}
                              ELSE {scheduler_thread}
    /\ UNCHANGED <<dependencies, cores, queue, status_map, dependents, executors,
                   available_cores, threads, wait_returned, rpc, nsubmit, ncancel,
                   submitted, cancelled_running, dep_failed>>

\* TaskScheduler.wait: the poll that finds _executors empty under the lock
\* and breaks.  self._thread is never assigned, so nothing is joined and the
\* call returns.  (A poll that finds an executor changes nothing.)
Wait ==
    /\ ~wait_returned
    /\ \A t \in Ids : executors[t] = 0
    /\ wait_returned' = TRUE
    /\ UNCHANGED <<dependencies, cores, queue, status_map, dependents, executors,
                   available_cores, threads, scheduler_thread, shutdown, rpc, nsubmit,
                   ncancel, submitted, cancelled_running, dep_failed>>

\* Executor._execute, first statement: update_status(RUNNING).
ExecutorStart(i) ==
    /\ threads[i].pc = "start"
    /\ \E r \in set_status(Sched, threads[i].task, RUNNING) :
          /\ Commit([r.s EXCEPT !.threads[i].pc =
                         IF r.exc = "none" THEN "running" ELSE "dead"])
    /\ UNCHANGED <<dependencies, cores, scheduler_thread, shutdown, wait_returned, rpc,
                   nsubmit, ncancel, submitted, cancelled_running, dep_failed>>

\* Executor._execute up to the choice of the status to report: the except
\* branch (FAILED), or after the poll loop CANCELLED when the cancelled
\* event is set, else COMPLETED or FAILED by the exit code.  (Nothing calls
\* Executor.terminate, so the terminated event is never set.)
ExecutorRun(i) ==
    /\ threads[i].pc = "running"
    /\ \E st \in {FAILED} \cup (IF threads[i].cancelled THEN {CANCELLED} ELSE {COMPLETED}) :
          threads' = [threads EXCEPT ![i].pc = "report", ![i].report = st]
    /\ UNCHANGED <<dependencies, cores, queue, status_map, dependents, executors,
                   available_cores, scheduler_thread, shutdown, wait_returned, rpc,
                   nsubmit, ncancel, submitted, cancelled_running, dep_failed>>

\* Executor._execute, the final update_status(...).  An exception out of it
\* ends the thread.
ExecutorReport(i) ==
    /\ threads[i].pc = "report"
    /\ \E r \in set_status(Sched, threads[i].task, threads[i].report) :
          /\ Commit([r.s EXCEPT !.threads[i].pc =
                         IF r.exc = "none" THEN "done" ELSE "dead"])
          /\ dep_failed' = dep_failed \cup Propagated(r.s, threads[i].task)
    /\ UNCHANGED <<dependencies, cores, scheduler_thread, shutdown, wait_returned, rpc,
                   nsubmit, ncancel, submitted, cancelled_running>>

Next ==
    \/ \E t \in Ids : SubmitTask(t)
    \/ \E t \in Ids : CancelTask(t)
    \/ ScheduleOnce
    \/ \E i \in 1..Len(threads) : ExecutorStart(i)
    \/ \E i \in 1..Len(threads) : ExecutorRun(i)
    \/ \E i \in 1..Len(threads) : ExecutorReport(i)

\* The server from Server.start on, as long as nobody shuts it down.
Spec == Init /\ [][Next]_vars

\* The server from Server.start to the end: Server.shutdown can be called at
\* any moment, and TaskScheduler.wait by whoever owns the scheduler.
NextOrShutdown ==
    \/ Next
    \/ Shutdown
    \/ Wait

ShutdownSpec == Init /\ [][NextOrShutdown]_vars

\* ------------------------------------------------ runs without failures
\* A submit-task request for a task the server has not accepted yet (each
\* task gets a fresh id from Client.submit; a rejected request can be sent
\* again).
SubmitNew(t) ==
    /\ status_map[t] = UNKNOWN
    /\ SubmitTask(t)

\* The same, sent only when the server knows all the task's dependencies.
SubmitAfterDependencies(t) ==
    /\ \A d \in dependencies[t] : status_map[d] # UNKNOWN
    /\ SubmitNew(t)

\* Executor._execute for a script that exits with code 0 and is not
\* cancelled: the status to report is COMPLETED.
ExecutorRunExitZero(i) ==
    /\ ExecutorRun(i)
    /\ threads'[i].report = COMPLETED

\* The steps of the i-th executor thread.
ExecutorThread(i) ==
    /\ i \in 1..Len(threads)
    /\ ExecutorStart(i) \/ ExecutorRunExitZero(i) \/ ExecutorReport(i)

\* The scheduler thread loops as long as it lives (time.sleep returns) and
\* every started executor thread runs to its end.
Fairness ==
    /\ WF_vars(ScheduleOnce)
    /\ \A i \in 1..MaxSubmits : WF_vars(ExecutorThread(i))

\* Every script exits with code 0 and nobody cancels.
NextProgress ==
    \/ \E t \in Ids : SubmitNew(t)
    \/ ScheduleOnce
    \/ \E i \in 1..Len(threads) : ExecutorStart(i)
    \/ \E i \in 1..Len(threads) : ExecutorRunExitZero(i)
    \/ \E i \in 1..Len(threads) : ExecutorReport(i)

ProgressSpec == Init /\ [][NextProgress]_vars /\ Fairness

\* The same runs, with every task submitted after its dependencies.
NextAcceptedProgress ==
    \/ \E t \in Ids : SubmitAfterDependencies(t)
    \/ ScheduleOnce
    \/ \E i \in 1..Len(threads) : ExecutorStart(i)
    \/ \E i \in 1..Len(threads) : ExecutorRunExitZero(i)
    \/ \E i \in 1..Len(threads) : ExecutorReport(i)

AcceptedProgressSpec == Init /\ [][NextAcceptedProgress]_vars /\ Fairness

\* ------------------------------------------------------------------ claims
\* Every task named, directly or through other tasks, by t's dependencies.
RECURSIVE Ancestors(_)
Ancestors(t) == dependencies[t] \cup UNION {Ancestors(d) : d \in dependencies[t]}

RECURSIVE SumCores(_)
SumCores(S) == IF S = {} THEN 0
               ELSE LET t == CHOOSE x \in S : TRUE IN cores[t] + SumCores(S \ {t})

RunningTasks == {t \in Ids : status_map[t] = RUNNING}

\* The step handled a submit-task (cancel-task) request for t.
SubmitStep(t) == nsubmit' = nsubmit + 1 /\ rpc'.id = t
CancelStep(t) == ncancel' = ncancel + 1 /\ rpc'.id = t

\* C1, first sentence: in every state a RUNNING task has only COMPLETED
\* dependencies.
RunningDepsCompleted ==
    \A b \in Ids : status_map[b] = RUNNING =>
        \A a \in dependencies[b] : status_map[a] = COMPLETED

\* C1, second sentence: schedule_once moves a task from SUBMITTED to RUNNING
\* only when all its dependencies are COMPLETED.
ScheduleOnceRespectsDeps ==
    ScheduleOnce =>
        \A b \in Ids : (status_map[b] = SUBMITTED /\ status_map'[b] = RUNNING) =>
            \A a \in dependencies[b] : status_map[a] = COMPLETED

\* C1: dependency ordering. A task whose dependencies contain A is RUNNING
\* only if A is COMPLETED, in every reachable state, and schedule_once never
\* starts a task that has a dependency which is not COMPLETED.
C1_DependencyOrdering ==
    []RunningDepsCompleted /\ [][ScheduleOnceRespectsDeps]_vars

\* C2: core cap. The cores of the RUNNING tasks never sum to more than
\* max_cores.
C2_CoreCap == SumCores(RunningTasks) <= max_cores

\* C3: terminal states are absorbing. No step changes the status of a task
\* that is COMPLETED, FAILED or CANCELLED.
C3_TerminalAbsorbing ==
    [][\A t \in Ids : status_map[t] \in FINISHED_STATES =>
           status_map'[t] = status_map[t]]_vars

\* C4: failure transitivity. In the step in which a submitted task A enters
\* FAILED or CANCELLED, every submitted task that depends on A, directly or
\* transitively, is FAILED when the step ends (so the next get_status
\* answers FAILED).
C4_FailureTransitivity ==
    [][\A a \in Ids :
          (/\ a \in submitted
           /\ status_map'[a] \in FAILED_STATES
           /\ status_map'[a] # status_map[a]) =>
              \A b \in submitted' : a \in Ancestors(b) =>
                  get_status(b)' = FAILED]_vars

\* A status report of an executor thread.
ExecutorStep == \E i \in 1..Len(threads) : ExecutorStart(i) \/ ExecutorReport(i)

\* C5: cancelling a running task. cancel_task(t) called while t is RUNNING
\* leaves t CANCELLED, and no status report of an executor thread (the
\* RUNNING report at its start, the terminal report at its exit) takes a
\* task cancelled that way out of CANCELLED.
C5_CancelRunningSticks ==
    [][\A t \in Ids :
          /\ (CancelStep(t) /\ status_map[t] = RUNNING) => status_map'[t] = CANCELLED
          /\ (t \in cancelled_running /\ status_map[t] = CANCELLED /\ ExecutorStep)
                 => status_map'[t] = CANCELLED]_vars

\* C6: an unknown dependency is rejected. A submit-task request for a new
\* task (no recorded status) with a dependency that has no recorded status
\* gets no ok reply (enqueue_task raises and the connection is closed) and
\* does not make the task SUBMITTED.
C6_UnknownDependencyRejected ==
    [][\A t \in Ids :
          (/\ SubmitStep(t)
           /\ status_map[t] = UNKNOWN
           /\ \E d \in dependencies[t] : status_map[d] = UNKNOWN) =>
              (rpc'.resp = "closed" /\ status_map'[t] # SUBMITTED)]_vars

\* C7: cancelling an id that was never submitted is a no-op. The status
\* map, queue, executors, dependents and available_cores stay as they were
\* and get_status still answers UNKNOWN.
C7_CancelUnseenNoOp ==
    [][\A t \in Ids :
          (CancelStep(t) /\ status_map[t] = UNKNOWN /\ ~InQueue(Sched, t)) =>
              (/\ UNCHANGED <<status_map, queue, executors, dependents, available_cores>>
               /\ get_status(t)' = UNKNOWN)]_vars

\* C8: cancel idempotence. From every reachable state and for every id t,
\* a second cancel_task(t) right after a first one leaves the scheduler
\* state (status map, queue, dependents, executors with their cancel
\* events, available_cores) exactly as the first one left it.
C8_CancelIdempotent ==
    \A t \in Ids : \A r1 \in cancel_task(Sched, t) :
        \A r2 \in cancel_task(r1.s, t) : r2.s = r1.s

\* C8 witness: a cancel-task request has just cancelled a RUNNING task
\* (its executor got the cancel event) and a further request can follow.
C8_Witness ==
    /\ rpc.type = "cancel-task" /\ rpc.resp = "ok"
    /\ rpc.id \in cancelled_running
    /\ status_map[rpc.id] = CANCELLED
    /\ \E i \in 1..Len(threads) : threads[i].task = rpc.id /\ threads[i].cancelled
    /\ ncancel < MaxCancels

\* C9: submit after a failed dependency. When a submit-task request for t
\* is answered and a dependency of t was FAILED or CANCELLED at the call,
\* get_status(t) is FAILED.
C9_SubmitAfterFailedDep ==
    [][\A t \in Ids :
          (/\ SubmitStep(t)
           /\ rpc'.resp = "ok"
           /\ \E d \in dependencies[t] : status_map[d] \in FAILED_STATES) =>
              get_status(t)' = FAILED]_vars

\* C10: a task failed through its dependencies never runs. Once a task was
\* set to FAILED because of a failed dependency, no step makes it RUNNING
\* and no step creates an Executor for it.
C10_DepFailedNeverRuns ==
    [][\A t \in dep_failed :
          /\ status_map'[t] # RUNNING
          /\ \A i \in (Len(threads) + 1)..Len(threads') : threads'[i].task # t]_vars

\* Position of a queued task in the scan order of schedule_once.
QueuePos(t) == CHOOSE i \in 1..Len(queue) : queue[i] = t

\* Tasks the step moved from SUBMITTED to RUNNING.
Started == {t \in Ids : status_map[t] = SUBMITTED /\ status_map'[t] = RUNNING}

\* Tasks the step started that the scan of schedule_once met before b.
StartedAhead(b) == {t \in Started : InQueue(Sched, t) /\ QueuePos(t) < QueuePos(b)}

\* C11: oversize tasks are not admitted. schedule_once starts a queued task
\* only when its cores fit into what the scan still has available when it
\* reaches the task: available_cores at the call minus the cores of the
\* tasks admitted ahead of it (so the scan's counter never goes below 0).
C11_OversizeNotAdmitted ==
    [][ScheduleOnce =>
          \A b \in Started : InQueue(Sched, b) =>
              cores[b] <= available_cores - SumCores(StartedAhead(b))]_vars

\* C14, the loop: an iteration of schedule_forever that runs with the flag
\* set is the last one, and the loop exits only with the flag set.
ShutdownEndsLoop ==
    /\ (ScheduleOnce /\ shutdown) => scheduler_thread' \in {"exited", "crashed"}
    /\ scheduler_thread' = "exited" => shutdown'

\* C14, after the loop: once the loop has exited no task becomes RUNNING.
NoneStartedAfterExit ==
    scheduler_thread = "exited" =>
        \A t \in Ids : status_map'[t] = RUNNING => status_map[t] = RUNNING

\* C14, shutdown(): the call changes no status and leaves the executors and
\* their threads alone.
ShutdownOnlySetsFlag ==
    Shutdown => UNCHANGED <<status_map, queue, executors, threads, available_cores>>

\* C14, wait(): the call returns only when executors is empty.
WaitFindsNoExecutor ==
    (wait_returned' /\ ~wait_returned) => \A t \in Ids : executors'[t] = 0

\* C14: shutdown. After shutdown() has set the flag schedule_forever ends
\* with at most the iteration in progress, and no task is moved to RUNNING
\* after the loop has exited; shutdown() changes no status and ends no
\* executor; wait() returns only in a state where executors is empty.
C14_Shutdown ==
    [][/\ ShutdownEndsLoop
       /\ NoneStartedAfterExit
       /\ ShutdownOnlySetsFlag
       /\ WaitFindsNoExecutor]_vars

\* The parts of C14 other than the one about tasks becoming RUNNING.
C14_LoopShutdownWait ==
    [][ShutdownEndsLoop /\ ShutdownOnlySetsFlag /\ WaitFindsNoExecutor]_vars

\* C13: status order within one task. A task's status becomes SUBMITTED
\* only from UNKNOWN and RUNNING only from SUBMITTED (so a task is never
\* RUNNING after a terminal status and never SUBMITTED after RUNNING).
C13_StatusOrder ==
    [][\A t \in Ids : status_map'[t] # status_map[t] =>
          /\ status_map'[t] = SUBMITTED => status_map[t] = UNKNOWN
          /\ status_map'[t] = RUNNING => status_map[t] = SUBMITTED]_vars

\* C13 for the status reports of the executor threads alone.
C13_ExecutorReportsKeepOrder ==
    [][ExecutorStep =>
          \A t \in Ids : (status_map'[t] = RUNNING /\ status_map[t] # RUNNING) =>
              status_map[t] = SUBMITTED]_vars

\* C12, the cores: when every submitted task is COMPLETED, available_cores
\* is max_cores.
CoresBackWhenAllCompleted ==
    (submitted # {} /\ \A t \in submitted : status_map[t] = COMPLETED) =>
        available_cores = max_cores

\* C12: progress on success. With scripts that exit with code 0, tasks of
\* at most max_cores cores, an acyclic dependency graph and no cancel, under
\* fair scheduling of the scheduler loop and the executor threads every
\* submitted task is eventually COMPLETED, and when all of them are,
\* available_cores is max_cores again.
C12_Progress ==
    /\ \A t \in Ids : (t \in submitted) ~> (status_map[t] = COMPLETED)
    /\ []CoresBackWhenAllCompleted

\* C15: core accounting. Between locked regions available_cores is within
\* 0..max_cores and equals max_cores minus the cores of the RUNNING tasks.
C15_CoreAccounting ==
    /\ 0 <= available_cores /\ available_cores <= max_cores
    /\ available_cores = max_cores - SumCores(RunningTasks)

\* C15 for one admission: schedule_once takes the cores of the tasks it
\* starts, and nothing else, off available_cores.
C15_AdmissionSubtractsCores ==
    [][ScheduleOnce => available_cores' = available_cores - SumCores(Started)]_vars

\* C16: queue/status consistency. Between locked regions an id is a key of
\* the queue exactly when its status is SUBMITTED.
C16_QueueIffSubmitted ==
    \A t \in Ids : InQueue(Sched, t) <=> status_map[t] = SUBMITTED

\* C16 for a forced FAILED: a task set to FAILED because of a failed
\* dependency is not in the queue.
C16_DepFailedLeavesQueue ==
    \A t \in dep_failed : status_map[t] = FAILED => ~InQueue(Sched, t)

\* C17: executor/status consistency. Between locked regions an id is a key
\* of executors exactly when its status is RUNNING.
C17_ExecutorsIffRunning ==
    \A t \in Ids : executors[t] # 0 <=> status_map[t] = RUNNING

\* C18: live tasks have healthy dependencies. Between locked regions every
\* dependency of a SUBMITTED or RUNNING task has a recorded status, and that
\* status is neither FAILED nor CANCELLED.
C18_LiveTasksHealthyDeps ==
    \A t \in Ids : status_map[t] \in {SUBMITTED, RUNNING} =>
        \A d \in dependencies[t] : status_map[d] \notin {UNKNOWN} \cup FAILED_STATES

\* C19: no escaped executor error. A status report of an executor thread
\* (set_status called from Executor._execute) returns normally: it never
\* ends the thread with an exception.  (Locked regions are atomic steps
\* here: _set_status recurses and starts executors without taking the lock
\* again, so no step waits for the mutex inside one.)
C19_ExecutorReportsReturn ==
    [][\A i \in 1..Len(threads) :
          threads[i].pc \in {"start", "report"} => threads'[i].pc # "dead"]_vars

\* C20: the scheduler loop never dies. Every dependency of every task in
\* the queue has an entry in the status map, and schedule_forever has not
\* ended with an exception.
C20_SchedulerLoopNeverDies ==
    /\ \A t \in Ids : InQueue(Sched, t) =>
           \A d \in dependencies[t] : status_map[d] # UNKNOWN
    /\ scheduler_thread # "crashed"

\* C20, the loop alone: schedule_forever has not ended with an exception.
C20_SchedulerThreadAlive == scheduler_thread # "crashed"

\* C21: a rejected submission changes nothing. When a submit-task request
\* for a new task is rejected for an unknown dependency (enqueue_task
\* raises BackendError), queue, status map, dependents, executors and
\* available_cores are as they were before the call.
C21_RejectedSubmitChangesNothing ==
    [][\A t \in Ids :
          (/\ SubmitStep(t)
           /\ rpc'.resp = "closed"
           /\ status_map[t] = UNKNOWN
           /\ \E d \in dependencies[t] : status_map[d] = UNKNOWN) =>
              UNCHANGED <<queue, status_map, dependents, executors,
                          available_cores>>]_vars

\* C21 for the reverse edges alone: the rejected request leaves dependents
\* as it was.
C21_RejectedSubmitKeepsDependents ==
    [][\A t \in Ids :
          (/\ SubmitStep(t)
           /\ rpc'.resp = "closed"
           /\ status_map[t] = UNKNOWN
           /\ \E d \in dependencies[t] : status_map[d] = UNKNOWN) =>
              UNCHANGED dependents]_vars

\* C22: each task is executed at most once. No step creates and starts an
\* Executor for an id for which an Executor was created before.
C22_ExecutedAtMostOnce ==
    [][\A i \in (Len(threads) + 1)..Len(threads') :
          threads'[i].pc = "start" =>
              \A j \in 1..Len(threads) : threads[j].task # threads'[i].task]_vars

====
